---- MODULE Spec2Model ----
(***************************************************************************)
(* A model of the modal terminal editor "te": the Editor struct            *)
(* (src/src/editor.rs), its cursor / viewport movement, its edit           *)
(* operations, its run loop, and the process entry point (src/src/main.rs).*)
(*                                                                         *)
(* The Document is a sequence of one-character strings.  Only single-byte  *)
(* characters are modelled (the code's arithmetic is on byte lengths), and *)
(* carriage returns are left out of the alphabet.                          *)
(***************************************************************************)
EXTENDS Integers, Sequences, FiniteSets, TLC

\* ------------------------------------------------------------------ bounds
\* longest Document the file on disk holds when the process starts
MaxDoc == 3
\* longest Document typing may produce (Edit-mode inserts stop there)
MaxLen == 4
\* longest Document of the movement harness (SpecNav)
MaxNavDoc == 5
\* largest terminal width and height handed to set_display_columns / _rows
\* (sizes start at 1: terminal::size() reports no zero dimension)
MaxCols == 2
MaxRows == 2
\* largest cursor / viewport coordinate the movement harness starts from
MaxCoord == 2

\* ------------------------------------------------------- program constants
U16_MAX == 65535
LF == "\n"
\* characters a Document on disk is made of, and characters typed in Edit mode
DocChars == {"a", LF}
TypedChars == {"q"}

VARIABLES
  editor,           \* the Editor struct (plus the model field `panic`)
  overflow_checks,  \* build profile: TRUE = overflow panics, FALSE = wraps
  pc,               \* position of the process: start, render, read, teardown, exited
  exit,             \* how main ended: none, Ok, Err_*, Panic
  raw_mode,         \* terminal raw mode enabled
  alt_screen,       \* terminal is on the alternate screen
  file,             \* the file at the path given on the command line
  event             \* the event the run loop dispatched last

vars == <<editor, overflow_checks, pc, exit, raw_mode, alt_screen, file, event>>

\* ----------------------------------------------------------------- helpers
Min(a, b) == IF a <= b THEN a ELSE b

\* usize::saturating_sub
saturating_sub(a, b) == IF a >= b THEN a - b ELSE 0

\* (a - b).try_into().unwrap_or(u16::MAX) on usize operands, for a >= b
to_u16(x) == IF x <= U16_MAX THEN x ELSE U16_MAX

\* all sequences over S of length <= n
RECURSIVE SeqsUpTo(_, _)
SeqsUpTo(S, n) ==
  IF n = 0 THEN {<<>>}
  ELSE LET shorter == SeqsUpTo(S, n - 1)
       IN  shorter \cup {Append(s, c) : s \in {t \in shorter : Len(t) = n - 1}, c \in S}

\* index of the first line break of s, 0 when there is none
RECURSIVE FirstLF(_, _)
FirstLF(s, i) ==
  IF i > Len(s) THEN 0
  ELSE IF s[i] = LF THEN i ELSE FirstLF(s, i + 1)

\* str::lines(): the lines of s without their terminators; a trailing line
\* break does not start a further (empty) line, and "" has no line at all
RECURSIVE lines(_)
lines(s) ==
  IF s = <<>> THEN <<>>
  ELSE LET i == FirstLF(s, 1)
       IN  IF i = 0 THEN <<s>>
           ELSE <<SubSeq(s, 1, i - 1)>> \o lines(SubSeq(s, i + 1, Len(s)))

RECURSIVE SumLens(_, _)
\* sum of (length + 1) over the first n lines of ls (fewer when ls is shorter)
SumLens(ls, n) ==
  IF n = 0 \/ ls = <<>> THEN 0
  ELSE Len(Head(ls)) + 1 + SumLens(Tail(ls), n - 1)

\* String::insert(idx, c), for idx <= len
string_insert(s, idx, c) == SubSeq(s, 1, idx) \o <<c>> \o SubSeq(s, idx + 1, Len(s))

\* String::remove(idx), for idx < len: the string without the character at idx
string_remove(s, idx) == SubSeq(s, 1, idx) \o SubSeq(s, idx + 2, Len(s))

\* ------------------------------------------------------------------ Editor
\* Editor::new
new(s) ==
  [ path             |-> "None",
    contents         |-> s,
    cursor           |-> [column |-> 0, row |-> 0],
    display_size     |-> [columns |-> 80, rows |-> 24],
    display_position |-> [column |-> 0, row |-> 0],
    mode             |-> "Navigate",
    panic            |-> "none" ]

\* Editor::set_display_columns
set_display_columns(e, c) ==
  [e EXCEPT !.display_size.columns = c,
            !.display_position.column = Min(e.display_position.column, c)]

\* Editor::set_display_rows
set_display_rows(e, r) ==
  [e EXCEPT !.display_size.rows = r,
            !.display_position.row = Min(e.display_position.row, r)]

\* Editor::row_length
row_length(e) ==
  LET ls == lines(e.contents)
      n  == e.display_position.row + e.cursor.row
  IN  IF n + 1 <= Len(ls) THEN Len(ls[n + 1]) ELSE 0

\* Editor::cursor_index
cursor_index(e) ==
  SumLens(lines(e.contents), e.cursor.row + e.display_position.row) + e.cursor.column

\* the re-clamp without its first step: display_position.column is kept
clamp_columns_cursor_only(e) ==
  LET rl == row_length(e)
      dc == e.display_position.column
  IN  IF rl < dc
      THEN IF overflow_checks THEN [e EXCEPT !.panic = "overflow"]
           ELSE [e EXCEPT !.cursor.column = Min(e.cursor.column, U16_MAX)]
      ELSE [e EXCEPT !.cursor.column = Min(e.cursor.column, to_u16(rl - dc))]

\* the column re-clamp that ends Up and Down
clamp_columns(e) ==
  LET e1 == [e EXCEPT !.display_position.column =
                         Min(e.display_position.column, row_length(e))]
      rl == row_length(e1)
      dc == e1.display_position.column
  IN  IF rl < dc
      THEN \* usize subtraction below zero
           IF overflow_checks THEN [e1 EXCEPT !.panic = "overflow"]
           ELSE [e1 EXCEPT !.cursor.column = Min(e1.cursor.column, U16_MAX)]
      ELSE [e1 EXCEPT !.cursor.column = Min(e1.cursor.column, to_u16(rl - dc))]

\* move_left with a plain subtraction in place of saturating_sub
move_left_unsaturated(e) ==
  IF e.cursor.column >= 1
  THEN [e EXCEPT !.cursor.column = e.cursor.column - 1]
  ELSE [e EXCEPT !.display_position.column = e.display_position.column - 1]

\* Editor::move_cursor(CursorMovement::Left)
move_left(e) ==
  IF e.cursor.column >= 1
  THEN [e EXCEPT !.cursor.column = e.cursor.column - 1]
  ELSE [e EXCEPT !.display_position.column = saturating_sub(e.display_position.column, 1)]

\* move_right that never scrolls the viewport
move_right_never_scrolls(e) ==
  LET last_column == IF e.mode = "Edit" THEN row_length(e)
                     ELSE saturating_sub(row_length(e), 1)
      can_move_right == e.display_position.column + e.cursor.column < last_column
  IN  IF can_move_right
      THEN [e EXCEPT !.cursor.column = e.cursor.column + 1]
      ELSE e

\* move_right with `<=` in place of `<` in can_move_right
move_right_off_by_one(e) ==
  LET last_column == IF e.mode = "Edit" THEN row_length(e)
                     ELSE saturating_sub(row_length(e), 1)
      can_move_right == e.display_position.column + e.cursor.column <= last_column
      at_right_of_display == e.cursor.column = e.display_size.columns - 1
  IN  IF can_move_right /\ at_right_of_display
      THEN [e EXCEPT !.display_position.column = e.display_position.column + 1]
      ELSE IF can_move_right
      THEN [e EXCEPT !.cursor.column = e.cursor.column + 1]
      ELSE e

\* Editor::move_cursor(CursorMovement::Right)
move_right(e) ==
  LET last_column == IF e.mode = "Edit" THEN row_length(e)
                     ELSE saturating_sub(row_length(e), 1)
      can_move_right == e.display_position.column + e.cursor.column < last_column
  IN  IF e.display_size.columns = 0
      THEN \* display_size.columns - 1 on u16
           IF overflow_checks THEN [e EXCEPT !.panic = "overflow"]
           ELSE IF ~can_move_right THEN e
           ELSE IF e.cursor.column = U16_MAX
                THEN [e EXCEPT !.display_position.column = e.display_position.column + 1]
                ELSE [e EXCEPT !.cursor.column = e.cursor.column + 1]
      ELSE LET at_right_of_display == e.cursor.column = e.display_size.columns - 1
           IN  IF can_move_right /\ at_right_of_display
               THEN [e EXCEPT !.display_position.column = e.display_position.column + 1]
               ELSE IF can_move_right
               THEN [e EXCEPT !.cursor.column = e.cursor.column + 1]
               ELSE e

\* move_up that does not scroll the viewport at screen row 0
move_up_no_scroll(e) ==
  LET e1 == IF e.cursor.row >= 1
            THEN [e EXCEPT !.cursor.row = e.cursor.row - 1]
            ELSE e
  IN  clamp_columns(e1)

\* Editor::move_cursor(CursorMovement::Up)
move_up(e) ==
  LET e1 == IF e.cursor.row >= 1
            THEN [e EXCEPT !.cursor.row = e.cursor.row - 1]
            ELSE [e EXCEPT !.display_position.row = saturating_sub(e.display_position.row, 1)]
  IN  clamp_columns(e1)

\* move_down that takes display_size.rows itself for the bottom row
move_down_late_scroll(e) ==
  LET ls == lines(e.contents)
      num_lines == saturating_sub(Len(ls), e.display_position.row)
      row1 == (e.cursor.row + 1) % (U16_MAX + 1)
      can_move_down == row1 < to_u16(num_lines)
      at_bottom_of_display == e.display_size.rows = e.cursor.row
      e1 == IF can_move_down /\ at_bottom_of_display
            THEN [e EXCEPT !.display_position.row = e.display_position.row + 1]
            ELSE IF can_move_down
            THEN [e EXCEPT !.cursor.row = row1]
            ELSE e
  IN  clamp_columns(e1)

\* Editor::move_cursor(CursorMovement::Down)
move_down(e) ==
  LET ls == lines(e.contents)
      num_lines == saturating_sub(Len(ls), e.display_position.row)
  IN  IF e.cursor.row = U16_MAX /\ overflow_checks
      THEN [e EXCEPT !.panic = "overflow"]
      ELSE
      LET row1 == (e.cursor.row + 1) % (U16_MAX + 1)
          can_move_down == row1 < to_u16(num_lines)
          at_bottom_of_display == e.display_size.rows = row1
          e1 == IF can_move_down /\ at_bottom_of_display
                THEN [e EXCEPT !.display_position.row = e.display_position.row + 1]
                ELSE IF can_move_down
                THEN [e EXCEPT !.cursor.row = row1]
                ELSE e
      IN  clamp_columns(e1)

\* Editor::move_cursor
move_cursor(e, direction) ==
  CASE direction = "Left"  -> move_left(e)
    [] direction = "Right" -> move_right(e)
    [] direction = "Up"    -> move_up(e)
    [] direction = "Down"  -> move_down(e)

\* insert that leaves the screen column where it is after a line break
insert_keeps_column(e, c) ==
  LET idx == cursor_index(e)
  IN  IF idx > Len(e.contents)
      THEN [e EXCEPT !.panic = "index"]
      ELSE
      LET e1 == [e EXCEPT !.contents = string_insert(e.contents, idx, c)]
      IN  IF c = LF
          THEN [e1 EXCEPT !.cursor.row = (e1.cursor.row + 1) % (U16_MAX + 1)]
          ELSE [e1 EXCEPT !.cursor.column = (e1.cursor.column + 1) % (U16_MAX + 1)]

\* Editor::insert
insert(e, c) ==
  LET idx == cursor_index(e)
  IN  IF idx > Len(e.contents)
      THEN \* String::insert asserts that idx is a char boundary
           [e EXCEPT !.panic = "index"]
      ELSE
      LET e1 == [e EXCEPT !.contents = string_insert(e.contents, idx, c)]
      IN  IF c = LF
          THEN IF e1.cursor.row = U16_MAX /\ overflow_checks
               THEN [e1 EXCEPT !.cursor.column = 0, !.panic = "overflow"]
               ELSE [e1 EXCEPT !.cursor.column = 0,
                               !.cursor.row = (e1.cursor.row + 1) % (U16_MAX + 1)]
          ELSE IF e1.cursor.column = U16_MAX /\ overflow_checks
               THEN [e1 EXCEPT !.panic = "overflow"]
               ELSE [e1 EXCEPT !.cursor.column = (e1.cursor.column + 1) % (U16_MAX + 1)]

\* Editor::remove
remove(e) ==
  IF cursor_index(e) = 0 THEN e
  ELSE
  LET idx == cursor_index(e) - 1
      current_length == row_length(e)
  IN  IF idx >= Len(e.contents)
      THEN \* String::remove panics past the end of the string
           [e EXCEPT !.panic = "index"]
      ELSE
      LET removed == e.contents[idx + 1]
          e1 == [e EXCEPT !.contents = string_remove(e.contents, idx)]
      IN  IF removed = LF
          THEN IF e1.cursor.row = 0 /\ overflow_checks
               THEN [e1 EXCEPT !.panic = "overflow"]
               ELSE
               LET e2 == [e1 EXCEPT !.cursor.row = (e1.cursor.row - 1) % (U16_MAX + 1)]
                   rl == row_length(e2)
               IN  IF rl < current_length
                   THEN IF overflow_checks
                        THEN [e2 EXCEPT !.panic = "overflow"]
                        ELSE \* the wrapped usize does not fit a u16
                             [e2 EXCEPT !.cursor.column = U16_MAX]
                   ELSE [e2 EXCEPT !.cursor.column = to_u16(rl - current_length)]
          ELSE IF e1.cursor.column = 0 /\ overflow_checks
               THEN [e1 EXCEPT !.panic = "overflow"]
               ELSE [e1 EXCEPT !.cursor.column = (e1.cursor.column - 1) % (U16_MAX + 1)]

\* Editor::render: the column the terminal's native cursor is put on
render_cursor_column(e) ==
  LET last_column == IF e.mode = "Edit" THEN row_length(e)
                     ELSE saturating_sub(row_length(e), 1)
  IN  Min(e.cursor.column, last_column)

\* str::get(n..) on single-byte text: None when n is past the end
str_get_from(str, n) ==
  [some |-> n <= Len(str),
   val  |-> IF n <= Len(str) THEN SubSeq(str, n + 1, Len(str)) ELSE <<>>]

\* str::get(..n) on single-byte text: None when n is past the end
str_get_to(str, n) ==
  [some |-> n <= Len(str),
   val  |-> IF n <= Len(str) THEN SubSeq(str, 1, n) ELSE <<>>]

\* Editor::render: the text written for one line of the Document
render_line(e, line) ==
  LET from == str_get_from(line, e.display_position.column)
  IN  IF ~from.some THEN <<>>
      ELSE LET to == str_get_to(from.val, e.display_size.columns)
           IN  IF to.some THEN to.val ELSE from.val

\* render that starts at the first line of the Document whatever the viewport row
render_lines_unscrolled(e) ==
  LET ls == lines(e.contents)
      taken == IF Len(ls) <= e.display_size.rows THEN ls
               ELSE SubSeq(ls, 1, e.display_size.rows)
  IN  [i \in 1..Len(taken) |-> render_line(e, taken[i])]

\* Editor::render: the texts written, entry i at screen row i - 1
render_lines(e) ==
  LET ls == lines(e.contents)
      skipped == IF e.display_position.row >= Len(ls) THEN <<>>
                 ELSE SubSeq(ls, e.display_position.row + 1, Len(ls))
      taken == IF Len(skipped) <= e.display_size.rows THEN skipped
               ELSE SubSeq(skipped, 1, e.display_size.rows)
  IN  [i \in 1..Len(taken) |-> render_line(e, taken[i])]

\* Editor::from_path, the Ok case: the file's contents when it exists
from_path(f) == new(IF f.exists THEN f.data ELSE <<>>)

\* ------------------------------------------------------------ the process
NoFile == [exists |-> FALSE, data |-> <<>>]

\* the files the path of the command line may name when the process starts
Files == {NoFile} \cup {[exists |-> TRUE, data |-> d] : d \in SeqsUpTo(DocChars, MaxDoc)}

Init ==
  /\ file \in Files
  /\ overflow_checks \in BOOLEAN
  /\ editor = new(<<>>)
  /\ pc = "start"
  /\ exit = "none"
  /\ raw_mode = FALSE
  /\ alt_screen = FALSE
  /\ event = "none"

\* main, lines 14-26: the load succeeds, the display size is set, the
\* alternate screen is entered and raw mode enabled
MainStart ==
  /\ pc = "start"
  /\ \E columns \in 1..MaxCols, rows \in 1..MaxRows :
        editor' = set_display_rows(set_display_columns(from_path(file), columns), rows)
  /\ alt_screen' = TRUE
  /\ raw_mode' = TRUE
  /\ pc' = "render"
  /\ UNCHANGED <<overflow_checks, exit, file, event>>

\* main, line 20: from_path fails and `?` returns the error
MainLoadFail ==
  /\ pc = "start"
  /\ \E err \in {"Err_DirectoryDoesNotExist", "Err_CannotOpenRoot", "Err_FileIo"} :
        /\ (err = "Err_FileIo") => file.exists
        /\ exit' = err
  /\ pc' = "exited"
  /\ UNCHANGED <<editor, overflow_checks, raw_mode, alt_screen, file, event>>

\* run, line 330: render succeeds; it changes no field of the Editor
Render ==
  /\ pc = "render"
  /\ pc' = "read"
  /\ UNCHANGED <<editor, overflow_checks, exit, raw_mode, alt_screen, file, event>>

\* run returns Err(e) and main's `?` (line 28) returns it at once
RunFails(err) ==
  /\ pc' = "exited"
  /\ exit' = err
  /\ UNCHANGED <<editor, overflow_checks, raw_mode, alt_screen, file, event>>

\* run, line 330: render fails
RenderFail ==
  /\ pc = "render"
  /\ RunFails("Err_TermIo")

\* coordinates from which the exploration follows Left and Up; a wrapped u16
\* lies beyond them (from there each Left or Up is one of 65535 decrements)
InCap(e) == e.cursor.column <= MaxLen + 1 /\ e.cursor.row <= MaxLen + 1

\* run blocks in event::read()
Reading == pc = "read"

\* run, lines 333 and 364: event::read() fails
ReadFail ==
  /\ Reading
  /\ RunFails("Err_TermIo")

\* the end of one iteration of the loop: the handler of event ev left the
\* Editor as e2, or panicked
Dispatched(ev, e2) ==
  /\ editor' = e2
  /\ event' = ev
  /\ IF e2.panic # "none"
     THEN pc' = "exited" /\ exit' = "Panic"
     ELSE pc' = "render" /\ exit' = exit
  /\ UNCHANGED <<overflow_checks, raw_mode, alt_screen>>

NavKey(ev) == Reading /\ editor.mode = "Navigate" /\ event' = ev
EditKey(ev) == Reading /\ editor.mode = "Edit" /\ event' = ev

\* run, lines 334-337: 'q' breaks the loop, run returns Ok(())
NavQuit ==
  /\ NavKey("q")
  /\ pc' = "teardown"
  /\ UNCHANGED <<editor, overflow_checks, exit, raw_mode, alt_screen, file>>

NavLeft  == InCap(editor) /\ NavKey("h") /\ Dispatched("h", move_cursor(editor, "Left"))  /\ UNCHANGED file
NavDown  == NavKey("j") /\ Dispatched("j", move_cursor(editor, "Down"))  /\ UNCHANGED file
NavUp    == InCap(editor) /\ NavKey("k") /\ Dispatched("k", move_cursor(editor, "Up"))    /\ UNCHANGED file
NavRight == NavKey("l") /\ Dispatched("l", move_cursor(editor, "Right")) /\ UNCHANGED file

\* run, lines 354-357
NavEnterEdit ==
  NavKey("i") /\ Dispatched("i", [editor EXCEPT !.mode = "Edit"]) /\ UNCHANGED file

\* run, lines 358-361, with Editor::write
NavSave ==
  /\ NavKey("w")
  /\ IF editor.path = "None"
     THEN \* self.path.as_ref().unwrap()
          Dispatched("w", [editor EXCEPT !.panic = "unwrap"]) /\ UNCHANGED file
     ELSE \/ \* File::create or file.write fails: Err(FileIo), returned by `?`
             /\ pc' = "exited"
             /\ exit' = "Err_FileIo"
             /\ UNCHANGED <<editor, overflow_checks, raw_mode, alt_screen, file>>
          \/ /\ file' = [exists |-> TRUE, data |-> editor.contents]
             /\ Dispatched("w", editor)

\* a Navigate branch that lets Enter through to insert
NavIgnoredTypes ==
  /\ Len(editor.contents) < MaxLen
  /\ NavKey("other") /\ Dispatched("other", insert(editor, LF)) /\ UNCHANGED file

\* run, line 362
NavIgnored ==
  NavKey("other") /\ Dispatched("other", editor) /\ UNCHANGED file

\* Esc that also steps the cursor back onto the last character
EditEscStepsBack ==
  EditKey("Esc")
  /\ Dispatched("Esc", [move_left(editor) EXCEPT !.mode = "Navigate"])
  /\ UNCHANGED file

\* run, lines 365-367
EditEsc ==
  EditKey("Esc") /\ Dispatched("Esc", [editor EXCEPT !.mode = "Navigate"]) /\ UNCHANGED file

\* run, lines 368-371
EditChar ==
  /\ Len(editor.contents) < MaxLen
  /\ \E c \in TypedChars :
        EditKey(c) /\ Dispatched(c, insert(editor, c)) /\ UNCHANGED file

\* run, lines 372-375
EditEnter ==
  /\ Len(editor.contents) < MaxLen
  /\ EditKey("Enter") /\ Dispatched("Enter", insert(editor, LF)) /\ UNCHANGED file

\* run, lines 376-379
EditBackspace ==
  EditKey("Backspace") /\ Dispatched("Backspace", remove(editor)) /\ UNCHANGED file

\* run, line 380
EditIgnored ==
  EditKey("other") /\ Dispatched("other", editor) /\ UNCHANGED file

\* main, lines 30-33: run returned Ok(())
MainTeardown ==
  /\ pc = "teardown"
  /\ raw_mode' = FALSE
  /\ alt_screen' = FALSE
  /\ pc' = "exited"
  /\ exit' = "Ok"
  /\ UNCHANGED <<editor, overflow_checks, file, event>>

Next ==
  \/ MainStart \/ MainLoadFail \/ Render \/ RenderFail \/ ReadFail
  \/ NavQuit \/ NavLeft \/ NavDown \/ NavUp \/ NavRight \/ NavEnterEdit
  \/ NavSave \/ NavIgnored
  \/ EditEsc \/ EditChar \/ EditEnter \/ EditBackspace \/ EditIgnored
  \/ MainTeardown

Spec == Init /\ [][Next]_vars

\* ------------------------------------------------- the movement harness
\* The unit tests build an Editor with Editor::new, assign cursor,
\* display_position and the display size directly, and call move_cursor.
NavDocs == SeqsUpTo(DocChars, MaxNavDoc)

InitNav ==
  /\ \E d \in NavDocs, m \in {"Navigate", "Edit"},
        cc \in 0..MaxCoord, cr \in 0..MaxCoord,
        dc \in 0..MaxCoord, dr \in 0..MaxCoord,
        columns \in 1..MaxCols, rows \in 1..MaxRows :
        editor = [new(d) EXCEPT !.mode = m,
                                !.cursor = [column |-> cc, row |-> cr],
                                !.display_position = [column |-> dc, row |-> dr],
                                !.display_size = [columns |-> columns, rows |-> rows]]
  /\ overflow_checks \in BOOLEAN
  /\ pc = "harness"
  /\ exit = "none"
  /\ raw_mode = FALSE
  /\ alt_screen = FALSE
  /\ file = NoFile
  /\ event = "none"

Moved(direction) ==
  /\ pc = "harness"
  /\ editor.panic = "none"
  /\ editor' = move_cursor(editor, direction)
  /\ event' = direction
  /\ UNCHANGED <<overflow_checks, pc, exit, raw_mode, alt_screen, file>>

TestLeft  == Moved("Left")
TestRight == Moved("Right")
TestUp    == Moved("Up")
TestDown  == Moved("Down")

NextNav == TestLeft \/ TestRight \/ TestUp \/ TestDown

SpecNav == InitNav /\ [][NextNav]_vars

\* --------------------------------------------------- the insert harness
\* The unit tests test_inserting_* build Editor::new("") and call insert
\* repeatedly, with nothing in between.
InsertChars == DocChars \cup TypedChars

InitIns ==
  /\ editor = new(<<>>)
  /\ overflow_checks \in BOOLEAN
  /\ pc = "inserting"
  /\ exit = "none"
  /\ raw_mode = FALSE
  /\ alt_screen = FALSE
  /\ file = NoFile
  /\ event = "none"

TestInsert ==
  /\ pc = "inserting"
  /\ editor.panic = "none"
  /\ Len(editor.contents) < MaxLen
  /\ \E c \in InsertChars :
        /\ editor' = insert(editor, c)
        /\ event' = c
  /\ UNCHANGED <<overflow_checks, pc, exit, raw_mode, alt_screen, file>>

NextIns == TestInsert

SpecIns == InitIns /\ [][NextIns]_vars

\* --------------------------------------------------- the render harness
\* run calls render on whatever Editor the events have left; here render is
\* applied to every Document, cursor, viewport offset and display size.
InitRender ==
  /\ \E d \in NavDocs, m \in {"Navigate", "Edit"},
        cc \in 0..MaxCoord, cr \in 0..MaxCoord,
        dc \in 0..MaxCoord, dr \in 0..MaxCoord,
        columns \in 1..MaxCols, rows \in 1..MaxRows :
        editor = [new(d) EXCEPT !.mode = m,
                                !.cursor = [column |-> cc, row |-> cr],
                                !.display_position = [column |-> dc, row |-> dr],
                                !.display_size = [columns |-> columns, rows |-> rows]]
  /\ overflow_checks \in BOOLEAN
  /\ pc = "render"
  /\ exit = "none"
  /\ raw_mode = TRUE
  /\ alt_screen = TRUE
  /\ file = NoFile
  /\ event = "none"

NextRender == Render \/ RenderFail

SpecRender == InitRender /\ [][NextRender]_vars

\* ------------------------------------------------------------- claims
\* the run loop is between two events
Running == pc \in {"render", "read"}

AbsRow(e) == e.display_position.row + e.cursor.row
AbsCol(e) == e.display_position.column + e.cursor.column

\* length of line r (rows counted from 0) of the Document, 0 when there is none
LineLen(e, r) ==
  LET ls == lines(e.contents)
  IN  IF r >= 0 /\ r + 1 <= Len(ls) THEN Len(ls[r + 1]) ELSE 0

\* C1: in every state of the run loop cursor_index() is a valid insertion
\* point of the Document, 0 <= cursor_index() <= length
C1_CursorIndexValid ==
  Running => (0 <= cursor_index(editor) /\ cursor_index(editor) <= Len(editor.contents))

\* the bound of C1 in the states whose cursor is not a wrapped u16
CursorIndexValidBeforeOverflow ==
  (Running /\ InCap(editor)) => cursor_index(editor) <= Len(editor.contents)

\* C2: a save ('w') overwrites the file with the whole Document and the loop
\* goes on; it never aborts the process, only a FileIo error value ends it
C2_SaveWritesFile ==
  (event = "w") =>
     /\ exit # "Panic"
     /\ (exit = "none") => (file.exists /\ file.data = editor.contents)

\* C3: cursor_index() is the sum of (line length + 1) over the lines before
\* the absolute row, plus the absolute column (viewport column included)
C3_CursorIndexIsAbsolute ==
  Running =>
     cursor_index(editor) = SumLens(lines(editor.contents), AbsRow(editor)) + AbsCol(editor)

\* C4: whenever remove() can run, none of its subtractions goes below zero:
\* the screen row is >= 1 when a line break is removed, the screen column is
\* >= 1 otherwise, and the merged row is at least as long as the old row
C4_RemoveNeverUnderflows ==
  (pc = "read" /\ editor.mode = "Edit" /\ cursor_index(editor) >= 1
     /\ cursor_index(editor) <= Len(editor.contents)) =>
     LET idx == cursor_index(editor) - 1
         merged == [editor EXCEPT !.contents = string_remove(editor.contents, idx),
                                  !.cursor.row = editor.cursor.row - 1]
     IN  IF editor.contents[idx + 1] = LF
         THEN editor.cursor.row >= 1 /\ row_length(merged) >= row_length(editor)
         ELSE editor.cursor.column >= 1

\* C5: in every state of the run loop, insert(c) followed by remove() gives
\* back the Document, the cursor and the viewport offset, for every c
C5_InsertRemoveIdentity ==
  Running => \A c \in TypedChars \cup {LF} : remove(insert(editor, c)) = editor

\* the round trip of C5 in the states whose cursor is not a wrapped u16
InsertRemoveIdentityBeforeOverflow ==
  (Running /\ InCap(editor)) =>
     \A c \in TypedChars \cup {LF} : remove(insert(editor, c)) = editor

\* C6: the process never ends with raw mode still enabled (nor on the
\* alternate screen)
C6_TerminalRestoredAtExit ==
  (pc = "exited") => (~raw_mode /\ ~alt_screen)

\* C7: in Navigate mode the cursor rests on an existing character: the
\* absolute column is <= max(row_length() - 1, 0)
C7_NavigateOnCharacter ==
  (Running /\ editor.mode = "Navigate") =>
     AbsCol(editor) <= saturating_sub(row_length(editor), 1)

\* the rightmost column the mode allows on the current row
LastColumn(e) ==
  IF e.mode = "Edit" THEN row_length(e) ELSE saturating_sub(row_length(e), 1)

\* C8: a Right move from a state whose absolute column is within the mode's
\* bound ends within the bound; it never panics, and on an empty line it
\* changes nothing
C8_RightStaysOnLine ==
  [][TestRight =>
       /\ editor'.panic = "none"
       /\ (AbsCol(editor) <= LastColumn(editor)) => (AbsCol(editor') <= LastColumn(editor'))
       /\ (row_length(editor) = 0) => (editor' = editor)]_vars

C8_Witness ==
  /\ pc = "harness" /\ event = "Right"
  /\ row_length(editor) >= 2
  /\ AbsCol(editor) = LastColumn(editor)
  /\ move_right(editor) = editor
  /\ move_left(editor) # editor

\* C9: a Left move decrements the screen column when it is > 0, otherwise
\* decrements the viewport column, which stays at 0 when it is 0; neither
\* goes below 0, and the rows, the mode and the Document do not change
C9_LeftFloorsAtZero ==
  [][TestLeft =>
       /\ editor'.cursor.column >= 0
       /\ editor'.display_position.column >= 0
       /\ IF editor.cursor.column > 0
          THEN /\ editor'.cursor.column = editor.cursor.column - 1
               /\ editor'.display_position.column = editor.display_position.column
          ELSE /\ editor'.cursor.column = 0
               /\ editor'.display_position.column =
                     (IF editor.display_position.column > 0
                      THEN editor.display_position.column - 1 ELSE 0)
       /\ editor'.cursor.row = editor.cursor.row
       /\ editor'.display_position.row = editor.display_position.row
       /\ editor'.mode = editor.mode
       /\ editor'.contents = editor.contents
       /\ editor'.panic = "none"]_vars

C9_Witness ==
  /\ pc = "harness" /\ event = "Left"
  /\ editor.cursor.column = 0
  /\ editor.display_position.column = 0
  /\ row_length(editor) >= 1
  /\ move_left(editor) = editor

\* the absolute row is neither the first nor the last line
Interior(e) == AbsRow(e) >= 1 /\ AbsRow(e) + 1 < Len(lines(e.contents))

SamePosition(e1, e2) == AbsRow(e1) = AbsRow(e2) /\ AbsCol(e1) = AbsCol(e2)

\* C10: from an interior row, with the absolute column no larger than the
\* length of both rows involved, Up then Down and Down then Up return to
\* the same absolute row and column
C10_UpDownRoundTrip ==
  (pc = "harness" /\ Interior(editor) /\ AbsCol(editor) <= LineLen(editor, AbsRow(editor))) =>
     /\ (AbsCol(editor) <= LineLen(editor, AbsRow(editor) - 1)) =>
           SamePosition(move_cursor(move_cursor(editor, "Up"), "Down"), editor)
     /\ (AbsCol(editor) <= LineLen(editor, AbsRow(editor) + 1)) =>
           SamePosition(move_cursor(move_cursor(editor, "Down"), "Up"), editor)

C10_Witness ==
  /\ pc = "harness" /\ event \in {"Up", "Down"}
  /\ Interior(editor)
  /\ AbsCol(editor) >= 1
  /\ AbsCol(editor) <= LineLen(editor, AbsRow(editor))
  /\ AbsCol(editor) <= LineLen(editor, AbsRow(editor) - 1)
  /\ AbsCol(editor) <= LineLen(editor, AbsRow(editor) + 1)
  /\ AbsRow(move_cursor(editor, "Up")) = AbsRow(editor) - 1
  /\ AbsRow(move_cursor(editor, "Down")) = AbsRow(editor) + 1

\* C11: in every state of the run loop the screen cursor lies inside the
\* display: column <= columns - 1 and row <= rows - 1
C11_CursorInsideDisplay ==
  Running =>
     /\ editor.cursor.column <= editor.display_size.columns - 1
     /\ editor.cursor.row <= editor.display_size.rows - 1

\* C12: starting from Editor::new(""), every insert appends its character at
\* the end of the Document, so the Document is the characters in order
C12_InsertAppends ==
  [][TestInsert =>
       /\ editor'.panic = "none"
       /\ editor'.contents = Append(editor.contents, event')]_vars

C12_Witness ==
  /\ pc = "inserting"
  /\ editor.panic = "none"
  /\ editor.contents = <<"a", LF, LF, "q">>
  /\ editor.cursor = [column |-> 1, row |-> 2]

\* remove() acts on e as a backspace at cursor_index()
BackspaceSemantics(e) ==
  LET idx == cursor_index(e)
      r == remove(e)
  IN  IF idx = 0 THEN r = e
      ELSE /\ idx <= Len(e.contents)
           /\ r.panic = "none"
           /\ r.contents = SubSeq(e.contents, 1, idx - 1) \o SubSeq(e.contents, idx + 1, Len(e.contents))
           /\ r.display_position = e.display_position
           /\ r.mode = e.mode
           /\ IF e.contents[idx] = LF
              THEN /\ r.cursor.row = e.cursor.row - 1
                   /\ r.cursor.column = LineLen(e, AbsRow(e) - 1)
                   /\ Len(lines(r.contents)) <= Len(lines(e.contents))
              ELSE /\ r.cursor.row = e.cursor.row
                   /\ r.cursor.column = e.cursor.column - 1

\* C13: in every state of the run loop remove() is a backspace: a no-op at
\* cursor index 0, otherwise it deletes exactly the character before the
\* cursor index, and for a line break the cursor lands on the join point
C13_RemoveIsBackspace ==
  (pc = "read" /\ editor.mode = "Edit") => BackspaceSemantics(editor)

\* the backspace semantics of C13 wherever remove() does not decrement
\* screen row 0
BackspaceSemanticsBelowRowZero ==
  (Running /\ InCap(editor) /\ cursor_index(editor) >= 1
     /\ ~(editor.cursor.row = 0 /\ editor.contents[cursor_index(editor)] = LF))
  => BackspaceSemantics(editor)

\* the Document, the screen cursor and the viewport offset stay as they are
SameTextAndPosition ==
  /\ editor'.contents = editor.contents
  /\ editor'.cursor = editor.cursor
  /\ editor'.display_position = editor.display_position

\* C14: the mode starts as Navigate and changes only by 'i' in Navigate
\* (to Edit) and Esc in Edit (to Navigate); these two transitions and every
\* unrecognized event leave the Document, the cursor and the viewport alone
C14_ModeTransitions ==
  [][/\ MainStart => editor'.mode = "Navigate"
     /\ (editor'.mode # editor.mode) =>
           \/ editor.mode = "Navigate" /\ event' = "i" /\ editor'.mode = "Edit"
           \/ editor.mode = "Edit" /\ event' = "Esc" /\ editor'.mode = "Navigate"
     /\ NavEnterEdit => (editor'.mode = "Edit" /\ SameTextAndPosition)
     /\ EditEsc => (editor'.mode = "Navigate" /\ SameTextAndPosition)
     /\ (NavIgnored \/ EditIgnored) => (editor' = editor /\ pc' = "render")
    ]_vars

C14_Witness ==
  /\ pc = "render"
  /\ event = "Esc"
  /\ editor.mode = "Navigate"
  /\ editor.cursor.column >= 1
  /\ AbsCol(editor) = row_length(editor)

\* run returns Ok(()) only from the 'q' of Navigate mode
OkOnlyByNavigateQuit ==
  /\ (pc' = "teardown" /\ pc # "teardown") =>
        (pc = "read" /\ editor.mode = "Navigate" /\ event' = "q")
  /\ (exit' = "Ok" /\ exit # "Ok") => pc = "teardown"

\* Esc (when in Edit mode) and then 'q' are accepted in every state in which
\* the loop waits for an event
QuitStaysPossible ==
  (pc = "read") =>
     IF editor.mode = "Navigate" THEN ENABLED NavQuit ELSE ENABLED EditEsc

\* C15: run returns Ok only when 'q' arrives in Navigate mode; 'q' in Edit
\* mode is inserted into the Document and the loop goes on; the loop can
\* always still be ended by Esc (when in Edit mode) followed by 'q'
C15_QuitOnlyInNavigate ==
  [][/\ OkOnlyByNavigateQuit
     /\ QuitStaysPossible
     /\ (EditChar /\ event' = "q") =>
           /\ pc' = "render"
           /\ exit' = "none"
           /\ Len(editor'.contents) = Len(editor.contents) + 1
           /\ cursor_index(editor) < Len(editor'.contents)
           /\ editor'.contents[cursor_index(editor) + 1] = "q"
    ]_vars

\* C15 in the states whose cursor is not a wrapped u16
QuitOnlyInNavigateBeforeWrap ==
  [][/\ OkOnlyByNavigateQuit
     /\ QuitStaysPossible
     /\ (EditChar /\ event' = "q" /\ InCap(editor)) =>
           /\ pc' = "render"
           /\ exit' = "none"
           /\ Len(editor'.contents) = Len(editor.contents) + 1
           /\ cursor_index(editor) < Len(editor'.contents)
           /\ editor'.contents[cursor_index(editor) + 1] = "q"
    ]_vars

\* C16: no event received in Navigate mode changes the Document, and the
\* movement keys (move_cursor in each direction) change neither the
\* Document nor the mode
C16_NavigateKeepsDocument ==
  [][(pc = "read" /\ editor.mode = "Navigate") =>
       /\ editor'.contents = editor.contents
       /\ (event' \in {"h", "j", "k", "l"}) => editor'.mode = editor.mode
       /\ (editor'.mode # editor.mode) => event' = "i"
    ]_vars

C16_Witness ==
  /\ pc = "render"
  /\ event \in {"h", "j", "k", "l"}
  /\ editor.mode = "Navigate"
  /\ AbsRow(editor) >= 1
  /\ AbsCol(editor) >= 1
  /\ \E i \in 1..Len(editor.contents) : editor.contents[i] = "q"

\* index of the last line of the Document, 0 for the empty Document
LastRow(e) == saturating_sub(Len(lines(e.contents)), 1)

\* C17: Down advances the absolute row by one exactly when absolute row + 1
\* is less than the number of lines, by scrolling when the screen row is
\* display rows - 1 and by moving the screen cursor otherwise; no move takes
\* the absolute row past the last line
C17_DownAdvancesOneRow ==
  [][/\ TestDown =>
           IF AbsRow(editor) + 1 < Len(lines(editor.contents))
           THEN /\ AbsRow(editor') = AbsRow(editor) + 1
                /\ IF editor.cursor.row = editor.display_size.rows - 1
                   THEN /\ editor'.display_position.row = editor.display_position.row + 1
                        /\ editor'.cursor.row = editor.cursor.row
                   ELSE /\ editor'.cursor.row = editor.cursor.row + 1
                        /\ editor'.display_position.row = editor.display_position.row
           ELSE /\ editor'.cursor.row = editor.cursor.row
                /\ editor'.display_position.row = editor.display_position.row
     /\ (NextNav /\ AbsRow(editor) <= LastRow(editor)) => AbsRow(editor') <= LastRow(editor')
    ]_vars

C17_Witness ==
  /\ pc = "harness" /\ event = "Down"
  /\ editor.display_position.row >= 1
  /\ editor.cursor.row = editor.display_size.rows - 1
  /\ Len(lines(editor.contents)) >= 3
  /\ AbsRow(editor) = LastRow(editor)
  /\ move_down(editor) = editor

\* C18: when the absolute column can advance, Right advances it by one, by
\* scrolling when the screen column is display columns - 1 and by moving the
\* screen cursor otherwise; a screen column inside the display stays inside,
\* and the rows do not change
C18_RightAdvancesOneColumn ==
  [][TestRight =>
       /\ (AbsCol(editor) < LastColumn(editor)) =>
             /\ AbsCol(editor') = AbsCol(editor) + 1
             /\ IF editor.cursor.column = editor.display_size.columns - 1
                THEN /\ editor'.display_position.column = editor.display_position.column + 1
                     /\ editor'.cursor.column = editor.cursor.column
                ELSE /\ editor'.cursor.column = editor.cursor.column + 1
                     /\ editor'.display_position.column = editor.display_position.column
       /\ (editor.cursor.column <= editor.display_size.columns - 1) =>
             (editor'.cursor.column <= editor.display_size.columns - 1)
       /\ editor'.cursor.row = editor.cursor.row
       /\ editor'.display_position.row = editor.display_position.row
    ]_vars

C18_Witness ==
  /\ pc = "harness" /\ event = "Right"
  /\ editor.display_position.column >= 1
  /\ editor.cursor.column = editor.display_size.columns - 1
  /\ AbsCol(editor) = LastColumn(editor)
  /\ row_length(editor) >= 3

\* C19: after every Up or Down the viewport column and the absolute column
\* are <= row_length() of the row now under the cursor, the subtraction of
\* the clamp is not negative, and neither column value has grown
C19_UpDownClampColumns ==
  [][(TestUp \/ TestDown) =>
       /\ editor'.panic = "none"
       /\ editor'.display_position.column <= row_length(editor')
       /\ row_length(editor') - editor'.display_position.column >= 0
       /\ AbsCol(editor') <= row_length(editor')
       /\ editor'.display_position.column <= editor.display_position.column
       /\ editor'.cursor.column <= editor.cursor.column
    ]_vars

C19_Witness ==
  /\ pc = "harness" /\ event \in {"Up", "Down"}
  /\ row_length(editor) >= 1
  /\ editor.display_position.column = row_length(editor)
  /\ editor.cursor.column = 0
  /\ \E r \in {AbsRow(editor) - 1, AbsRow(editor) + 1} : LineLen(editor, r) > row_length(editor)

\* C20: in Navigate mode render puts the terminal's cursor on or before the
\* last character of the line: viewport column + painted column is
\* <= max(row_length() - 1, 0)
C20_PaintedCursorOnCharacter ==
  (pc = "read" /\ editor.mode = "Navigate") =>
     editor.display_position.column + render_cursor_column(editor)
        <= saturating_sub(row_length(editor), 1)

\* the text the claim expects for a line: its characters from the viewport
\* column up to, but excluding, min(length, viewport column + columns)
ExpectedText(e, line) ==
  LET from == e.display_position.column
      to   == Min(Len(line), from + e.display_size.columns)
  IN  IF from > Len(line) THEN <<>>
      ELSE [j \in 1..(to - from) |-> line[from + j]]

\* C21: render paints at most display rows rows, row i showing line
\* viewport row + i cut to the columns of the viewport (nothing when the
\* viewport column is past the line's end), and changes no editor state
C21_RenderPaintsViewport ==
  /\ [](pc = "read" =>
          LET painted == render_lines(editor)
              ls == lines(editor.contents)
          IN  /\ Len(painted) <= editor.display_size.rows
              /\ \A i \in 1..Len(painted) :
                    /\ editor.display_position.row + i <= Len(ls)
                    /\ painted[i] = ExpectedText(editor, ls[editor.display_position.row + i]))
  /\ [][Render => editor' = editor]_vars

C21_Witness ==
  /\ pc = "read"
  /\ editor.display_position.column >= 1
  /\ Len(render_lines(editor)) = 2
  /\ \E i \in 1..2 :
        /\ Len(render_lines(editor)[i]) = editor.display_size.columns
        /\ Len(lines(editor.contents)[editor.display_position.row + i])
             > editor.display_position.column + editor.display_size.columns
  /\ \E i \in 1..2 :
        Len(lines(editor.contents)[editor.display_position.row + i])
          < editor.display_position.column

\* a failed render or a failed event read ends run at once with that error
\* and leaves the Editor as it was; nothing happens after the process ended
TermFailureReturnedAtOnce ==
  /\ (RenderFail \/ ReadFail) =>
        (pc' = "exited" /\ exit' = "Err_TermIo" /\ editor' = editor)
  /\ pc # "exited"

\* one render before the first read and between any two reads
OneRenderPerRead ==
  /\ (pc = "start") => pc' \in {"render", "exited"}
  /\ (pc' = "read") => (pc = "render" /\ Render)
  /\ (pc = "render") => pc' \in {"read", "exited"}
  /\ (pc = "read") => pc' \in {"render", "teardown", "exited"}

\* C22: a failed render, event read or save makes run return that failure
\* at once as an error value, with the Editor as it was and nothing read or
\* dispatched afterwards; exactly one render happens between two event
\* reads, and one before the first
C22_FailuresReturnedAtOnce ==
  [][/\ TermFailureReturnedAtOnce
     /\ OneRenderPerRead
     /\ (NavSave /\ pc' # "render") =>
           (pc' = "exited" /\ exit' = "Err_FileIo" /\ editor' = editor)
    ]_vars

\* C22 apart from the save
FailuresReturnedApartFromSave ==
  [][TermFailureReturnedAtOnce /\ OneRenderPerRead]_vars

====
